---- MODULE Spec2Model ----
(***************************************************************************)
(* Double-array Aho-Corasick automaton (daachorse, src/src/lib.rs) and its *)
(* four search iterators.                                                  *)
(*                                                                         *)
(* A u32 word is held as a pair <<hi, lo>> of 16-bit halves, so that the   *)
(* all-ones sentinels, the packed fail/check word and the packed           *)
(* length/is_begin word keep their 32-bit width.  Indices and byte offsets *)
(* (usize) are naturals.  An Option<T> is <<>> (None) or <<x>> (Some(x)).  *)
(***************************************************************************)
EXTENDS Integers, Sequences, FiniteSets, Bags, TLC

----------------------------------------------------------------------------
(* Bounds of the model *)

\* Largest sum of the pattern lengths of a generated pattern list.
MaxTotalLen == 3
\* Largest length of a generated haystack.
MaxHayLen == 3
\* How many more times next() is called after it has returned None.
MaxNoneCalls == 1

\* Bytes the generated patterns and haystacks are made of.
Alphabet == {0, 97}
\* Values a caller of with_values() supplies.
CallerValues == {20, 21}

----------------------------------------------------------------------------
(* u32 words *)

Half == 256 * 256

W32(n) == <<n \div Half, n % Half>>
ToNat(w) == (w[1] * Half) + w[2]
U32_MAX == <<Half - 1, Half - 1>>

\* a ^ b, bit by bit
RECURSIVE BitXorBits(_, _)
BitXorBits(a, b) ==
    IF a = 0 THEN b
    ELSE IF b = 0 THEN a
    ELSE (((a % 2) + (b % 2)) % 2) + (2 * BitXorBits(a \div 2, b \div 2))

\* The same for two bytes, as a table.
XorOfBytes == [a \in 0..255 |-> [b \in 0..255 |-> BitXorBits(a, b)]]

\* a ^ b, byte by byte
RECURSIVE BitXor(_, _)
BitXor(a, b) ==
    IF a < 256 /\ b < 256 THEN XorOfBytes[a][b]
    ELSE XorOfBytes[a % 256][b % 256] + (256 * BitXor(a \div 256, b \div 256))

None == <<>>
Some(x) == <<x>>
IsSome(o) == o # <<>>
Unwrap(o) == o[1]

----------------------------------------------------------------------------
(* Constants of lib.rs *)

BASE_INVALID == U32_MAX
OUTPUT_POS_INVALID == U32_MAX
FAIL_MAX == 16777215
ROOT_STATE_IDX == 0
DEAD_STATE_IDX == 1

Standard == "Standard"
LeftmostLongest == "LeftmostLongest"
LeftmostFirst == "LeftmostFirst"
MatchKind == {Standard, LeftmostLongest, LeftmostFirst}

IteratorKinds ==
    {"FindIterator", "FindOverlappingIterator", "FindOverlappingNoSuffixIterator",
     "LestmostFindIterator"}

is_standard(mk) == mk = Standard
\* Variant of is_leftmost that forgets one of the two leftmost kinds.
is_leftmost_OnlyLongest(mk) == mk = LeftmostLongest
is_leftmost(mk) == mk = LeftmostFirst \/ mk = LeftmostLongest
is_leftmost_first(mk) == mk = LeftmostFirst

----------------------------------------------------------------------------
(* struct State *)

\* The three u32 fields base, fach, output_pos, each as its two 16-bit halves:
\* <<base hi, base lo, fach hi, fach lo, output_pos hi, output_pos lo>>.
State_default == <<Half - 1, Half - 1, 0, 0, Half - 1, Half - 1>>

State_base(s) ==
    LET base == <<s[1], s[2]>> IN
    IF base # BASE_INVALID THEN Some(ToNat(base)) ELSE None
\* fach & 0xFF
State_check(s) == s[4] % 256
\* fach >> 8
State_fail(s) == (s[3] * 256) + (s[4] \div 256)
State_output_pos(s) ==
    LET output_pos == <<s[5], s[6]>> IN
    IF output_pos # OUTPUT_POS_INVALID THEN Some(ToNat(output_pos)) ELSE None

State_set_base(s, x) == [s EXCEPT ![1] = W32(x)[1], ![2] = W32(x)[2]]
\* Variant of State::set_check that adds x to fach without clearing the old
\* check byte.
State_set_check_NoClear(s, x) ==
    LET fach == ((s[3] * Half) + s[4]) + x IN
    [s EXCEPT ![3] = (fach \div Half) % Half, ![4] = fach % Half]
\* fach &= !CHECK_MASK; fach |= x
State_set_check(s, x) == [s EXCEPT ![4] = ((@ \div 256) * 256) + x]
\* Variant of State::set_fail that clears the fail bits and stores nothing.
State_set_fail_ClearsOnly(s, x) == [s EXCEPT ![3] = 0, ![4] = @ % 256]
\* fach &= !FAIL_MASK; fach |= x << 8   (the shift drops the bits above bit 31)
State_set_fail(s, x) ==
    [s EXCEPT ![3] = (x \div 256) % Half, ![4] = ((x % 256) * 256) + (@ % 256)]
State_set_output_pos(s, x) == [s EXCEPT ![5] = W32(x)[1], ![6] = W32(x)[2]]

----------------------------------------------------------------------------
(* struct Output *)

\* length: (length << 1) | is_begin, in 32 bits
Output_new(value, length, is_begin) ==
    [value |-> W32(value),
     length |-> <<(length \div 32768) % Half, ((length % 32768) * 2) + (IF is_begin THEN 1 ELSE 0)>>]
\* Variant of Output::value that reads the wrong field.
Output_value_ReadsLength(o) == ToNat(o.length) \div 2
Output_value(o) == ToNat(o.value)
Output_length(o) == (o.length[1] * 32768) + (o.length[2] \div 2)
\* Variant of Output::is_begin with the test of the flag inverted.
Output_is_begin_Inverted(o) == (o.length[2] % 2) = 0
Output_is_begin(o) == (o.length[2] % 2) = 1

----------------------------------------------------------------------------
(* struct Match *)

Match(length, end, value) == [length |-> length, end |-> end, value |-> value]
Match_start(m) == m.end - m.length
Match_end(m) == m.end
Match_value(m) == m.value

----------------------------------------------------------------------------
(* Traversal primitives of DoubleArrayAhoCorasick.  sts is the state       *)
(* array; index i of the Vec is sts[i + 1].                                *)

StateAt(sts, i) == sts[i + 1]

\* Variant of get_child_index_unchecked that does not compare check with c.
get_child_index_unchecked_NoCheck(sts, state_id, c) ==
    LET b == State_base(StateAt(sts, state_id)) IN
    IF IsSome(b) THEN Some(BitXor(Unwrap(b), c)) ELSE None

get_child_index_unchecked(sts, state_id, c) ==
    LET b == State_base(StateAt(sts, state_id)) IN
    IF IsSome(b)
    THEN LET child_idx == BitXor(Unwrap(b), c) IN
         IF State_check(StateAt(sts, child_idx)) = c THEN Some(child_idx) ELSE None
    ELSE None

\* Variant of get_next_state_id_unchecked that gives up at the first missing
\* child instead of following the fail links.
get_next_state_id_unchecked_NoFail(sts, state_id, c) ==
    LET child == get_child_index_unchecked(sts, state_id, c) IN
    IF IsSome(child) THEN Unwrap(child) ELSE ROOT_STATE_IDX

RECURSIVE get_next_state_id_unchecked(_, _, _)
get_next_state_id_unchecked(sts, state_id, c) ==
    LET child == get_child_index_unchecked(sts, state_id, c) IN
    IF IsSome(child) THEN Unwrap(child)
    ELSE IF state_id = ROOT_STATE_IDX THEN ROOT_STATE_IDX
    ELSE get_next_state_id_unchecked(sts, State_fail(StateAt(sts, state_id)), c)

\* Variant of get_next_state_id_leftmost_unchecked that restarts at ROOT where
\* the fail link is DEAD.
RECURSIVE get_next_state_id_leftmost_unchecked_NoDead(_, _, _)
get_next_state_id_leftmost_unchecked_NoDead(sts, state_id, c) ==
    LET child == get_child_index_unchecked(sts, state_id, c) IN
    IF IsSome(child) THEN Unwrap(child)
    ELSE IF state_id = ROOT_STATE_IDX THEN ROOT_STATE_IDX
    ELSE LET fail_id == State_fail(StateAt(sts, state_id)) IN
         IF fail_id = DEAD_STATE_IDX THEN ROOT_STATE_IDX
         ELSE get_next_state_id_leftmost_unchecked_NoDead(sts, fail_id, c)

\* Variant of get_next_state_id_leftmost_unchecked that answers DEAD where
\* ROOT has no child.
RECURSIVE get_next_state_id_leftmost_unchecked_DeadAtRoot(_, _, _)
get_next_state_id_leftmost_unchecked_DeadAtRoot(sts, state_id, c) ==
    LET child == get_child_index_unchecked(sts, state_id, c) IN
    IF IsSome(child) THEN Unwrap(child)
    ELSE IF state_id = ROOT_STATE_IDX THEN DEAD_STATE_IDX
    ELSE LET fail_id == State_fail(StateAt(sts, state_id)) IN
         IF fail_id = DEAD_STATE_IDX THEN DEAD_STATE_IDX
         ELSE get_next_state_id_leftmost_unchecked_DeadAtRoot(sts, fail_id, c)

RECURSIVE get_next_state_id_leftmost_unchecked(_, _, _)
get_next_state_id_leftmost_unchecked(sts, state_id, c) ==
    LET child == get_child_index_unchecked(sts, state_id, c) IN
    IF IsSome(child) THEN Unwrap(child)
    ELSE IF state_id = ROOT_STATE_IDX THEN ROOT_STATE_IDX
    ELSE LET fail_id == State_fail(StateAt(sts, state_id)) IN
         IF fail_id = DEAD_STATE_IDX THEN DEAD_STATE_IDX
         ELSE get_next_state_id_leftmost_unchecked(sts, fail_id, c)

\* The loops of the two transitions, counted: what the function returns when
\* its loop returns within n iterations, None when it does not.

\* Variant of the loop of get_next_state_id_unchecked without the return at
\* ROOT.
RECURSIVE get_next_state_id_unchecked_within_NoRootExit(_, _, _, _)
get_next_state_id_unchecked_within_NoRootExit(sts, state_id, c, n) ==
    IF n = 0 THEN None
    ELSE LET child == get_child_index_unchecked(sts, state_id, c) IN
         IF IsSome(child) THEN child
         ELSE get_next_state_id_unchecked_within_NoRootExit(
                  sts, State_fail(StateAt(sts, state_id)), c, n - 1)

RECURSIVE get_next_state_id_unchecked_within(_, _, _, _)
get_next_state_id_unchecked_within(sts, state_id, c, n) ==
    IF n = 0 THEN None
    ELSE LET child == get_child_index_unchecked(sts, state_id, c) IN
         IF IsSome(child) THEN child
         ELSE IF state_id = ROOT_STATE_IDX THEN Some(ROOT_STATE_IDX)
         ELSE get_next_state_id_unchecked_within(
                  sts, State_fail(StateAt(sts, state_id)), c, n - 1)

RECURSIVE get_next_state_id_leftmost_unchecked_within(_, _, _, _)
get_next_state_id_leftmost_unchecked_within(sts, state_id, c, n) ==
    IF n = 0 THEN None
    ELSE LET child == get_child_index_unchecked(sts, state_id, c) IN
         IF IsSome(child) THEN child
         ELSE IF state_id = ROOT_STATE_IDX THEN Some(ROOT_STATE_IDX)
         ELSE LET fail_id == State_fail(StateAt(sts, state_id)) IN
              IF fail_id = DEAD_STATE_IDX THEN Some(DEAD_STATE_IDX)
              ELSE get_next_state_id_leftmost_unchecked_within(sts, fail_id, c, n - 1)

----------------------------------------------------------------------------
(* DoubleArrayAhoCorasickBuilder (mod builder, lib.rs:91 and 98).  Its     *)
(* file is not part of the sources at hand: the construction below follows *)
(* sections 4.1 and 4.2 of the specification, the doc tests of lib.rs      *)
(* (heap_bytes = 3104 for bcd, ab, a: 256 states and 4 output records, the *)
(* last one a terminating record) and the debug assertion of lib.rs:411    *)
(* (a DEAD transition always follows a recorded acceptance, so a leftmost  *)
(* state without a pattern of its own carries the run of its fail state).  *)

BLOCK_LEN == 256

SetMin(S) == CHOOSE x \in S : \A y \in S : x <= y

RECURSIVE SortedSeq(_)
SortedSeq(S) == IF S = {} THEN <<>> ELSE <<SetMin(S)>> \o SortedSeq(S \ {SetMin(S)})

\* The sparse trie: nodes[i] is the prefix spelled by node i (node 1 is the
\* root), output[i] = <<value, length>> of the pattern ending there, length
\* 0 when there is none.
SparseTrie_new == [nodes |-> << <<>> >>, output |-> << <<0, 0>> >>]

HasNode(trie, prefix) == \E i \in 1..Len(trie.nodes) : trie.nodes[i] = prefix
NodeOf(trie, prefix) == CHOOSE i \in 1..Len(trie.nodes) : trie.nodes[i] = prefix

RECURSIVE SparseTrie_insert(_, _, _)
SparseTrie_insert(trie, pattern, k) ==
    IF k > Len(pattern) THEN trie
    ELSE LET pre == SubSeq(pattern, 1, k) IN
         SparseTrie_insert(
             IF HasNode(trie, pre) THEN trie
             ELSE [nodes |-> Append(trie.nodes, pre), output |-> Append(trie.output, <<0, 0>>)],
             pattern, k + 1)

\* Leftmost-first: a pattern that has an earlier registered pattern as a
\* proper prefix can never be reported and is not inserted.
SparseTrie_add(trie, pattern, value, mk) ==
    IF is_leftmost_first(mk)
       /\ \E k \in 1..(Len(pattern) - 1) :
              /\ HasNode(trie, SubSeq(pattern, 1, k))
              /\ trie.output[NodeOf(trie, SubSeq(pattern, 1, k))][2] # 0
    THEN trie
    ELSE LET t == SparseTrie_insert(trie, pattern, 1) IN
         [t EXCEPT !.output[NodeOf(t, pattern)] = <<value, Len(pattern)>>]

RECURSIVE build_sparse_trie(_, _, _, _)
build_sparse_trie(trie, patvals, i, mk) ==
    IF i > Len(patvals) THEN trie
    ELSE build_sparse_trie(SparseTrie_add(trie, patvals[i].pat, patvals[i].val, mk),
                           patvals, i + 1, mk)

\* Outgoing labels of trie node i, in ascending byte order.
Edges(trie, i) ==
    LET depth == Len(trie.nodes[i])
        children == {j \in 1..Len(trie.nodes) :
                        /\ Len(trie.nodes[j]) = depth + 1
                        /\ SubSeq(trie.nodes[j], 1, depth) = trie.nodes[i]}
    IN SortedSeq({trie.nodes[j][depth + 1] : j \in children})

\* Double-array under construction: states, the used slots, the used bases
\* and ids[i], the slot of trie node i.
init_array(n) ==
    [states |-> [i \in 1..BLOCK_LEN |-> State_default],
     used_index |-> {ROOT_STATE_IDX, DEAD_STATE_IDX},
     used_base |-> {},
     ids |-> [i \in 1..n |-> ROOT_STATE_IDX]]

extend_array(da) ==
    [da EXCEPT !.states = @ \o [i \in 1..BLOCK_LEN |-> State_default]]

check_valid_base(da, base, labels) ==
    /\ base \notin da.used_base
    /\ \A k \in 1..Len(labels) : BitXor(base, labels[k]) \notin da.used_index

\* The first free slot f, in ascending order from slot f on, for which
\* f XOR c_min is a valid base; a base in a fresh block when there is none.
RECURSIVE find_base_from(_, _, _)
find_base_from(da, labels, f) ==
    IF f >= Len(da.states) THEN BitXor(Len(da.states), labels[1])
    ELSE IF f \notin da.used_index /\ check_valid_base(da, BitXor(f, labels[1]), labels)
    THEN BitXor(f, labels[1])
    ELSE find_base_from(da, labels, f + 1)

find_base(da, labels) == find_base_from(da, labels, 0)

RECURSIVE set_children(_, _, _, _, _, _)
set_children(da, trie, i, base, labels, k) ==
    IF k > Len(labels) THEN da
    ELSE LET c == labels[k]
             child_idx == BitXor(base, c)
             child_id == NodeOf(trie, Append(trie.nodes[i], c))
         IN set_children(
                [da EXCEPT !.states[child_idx + 1] = State_set_check(@, c),
                           !.used_index = @ \cup {child_idx},
                           !.ids[child_id] = child_idx],
                trie, i, base, labels, k + 1)

arrange_node(da, trie, i) ==
    LET labels == Edges(trie, i) IN
    IF labels = <<>> THEN da
    ELSE LET base == find_base(da, labels)
             grown == IF base >= Len(da.states) THEN extend_array(da) ELSE da
             laid == set_children(grown, trie, i, base, labels, 1)
         IN [laid EXCEPT !.states[da.ids[i] + 1] = State_set_base(@, base),
                         !.used_base = @ \cup {base}]

RECURSIVE arrange_nodes(_, _, _)
arrange_nodes(da, trie, i) ==
    IF i > Len(trie.nodes) THEN da
    ELSE arrange_nodes(arrange_node(da, trie, i), trie, i + 1)

\* Every slot that is not a state (a free slot, ROOT, DEAD) gets the check
\* byte that only an unused base of its block could match, so that no child
\* lookup ever lands on it.
remove_invalid_checks(da) ==
    LET unused_base == [blk \in 0..((Len(da.states) \div BLOCK_LEN) - 1) |->
                           SetMin({b \in (blk * BLOCK_LEN)..(blk * BLOCK_LEN + BLOCK_LEN - 1) :
                                       b \notin da.used_base})]
    IN [da EXCEPT !.states =
            [i \in 1..Len(da.states) |->
                LET idx == i - 1 IN
                IF idx = ROOT_STATE_IDX \/ idx = DEAD_STATE_IDX \/ idx \notin da.used_index
                THEN State_set_check(da.states[i], BitXor(idx, unused_base[idx \div BLOCK_LEN]))
                ELSE da.states[i]]]

build_double_array(trie) ==
    remove_invalid_checks(arrange_nodes(init_array(Len(trie.nodes)), trie, 1))

\* The fail target of the child on c of a state whose fail is fail_idx.
RECURSIVE find_fail(_, _, _, _)
find_fail(sts, fail_idx, c, mk) ==
    LET child_fail == get_child_index_unchecked(sts, fail_idx, c)
        next_fail_idx == State_fail(StateAt(sts, fail_idx))
    IN IF IsSome(child_fail) THEN Unwrap(child_fail)
       ELSE IF is_leftmost(mk) /\ next_fail_idx = DEAD_STATE_IDX THEN DEAD_STATE_IDX
       ELSE IF fail_idx = ROOT_STATE_IDX /\ next_fail_idx = ROOT_STATE_IDX THEN ROOT_STATE_IDX
       ELSE find_fail(sts, next_fail_idx, c, mk)

\* acc = [states, visits]; visits is the breadth-first queue of
\* <<slot, trie node>> pairs.
RECURSIVE fail_children(_, _, _, _, _, _, _)
fail_children(acc, trie, ids, da_node, st_node, labels, mk) ==
    IF labels = <<>> THEN acc
    ELSE LET c == Head(labels)
             st_child == NodeOf(trie, Append(trie.nodes[st_node], c))
             da_child == ids[st_child]
             fail_idx == State_fail(StateAt(acc.states, da_node))
             new_fail == IF da_node = ROOT_STATE_IDX THEN ROOT_STATE_IDX
                         ELSE IF is_leftmost(mk) /\ fail_idx = DEAD_STATE_IDX THEN DEAD_STATE_IDX
                         ELSE find_fail(acc.states, fail_idx, c, mk)
         IN fail_children(
                [states |-> [acc.states EXCEPT ![da_child + 1] = State_set_fail(@, new_fail)],
                 visits |-> Append(acc.visits, <<da_child, st_child>>)],
                trie, ids, da_node, st_node, Tail(labels), mk)

RECURSIVE fail_visits(_, _, _, _, _)
fail_visits(acc, trie, ids, vi, mk) ==
    IF vi > Len(acc.visits) THEN acc
    ELSE LET da_node == acc.visits[vi][1]
             st_node == acc.visits[vi][2]
             \* a leftmost state that ends a pattern fails to DEAD
             marked == IF is_leftmost(mk) /\ trie.output[st_node][2] # 0
                       THEN [acc EXCEPT !.states[da_node + 1] = State_set_fail(@, DEAD_STATE_IDX)]
                       ELSE acc
         IN fail_visits(
                fail_children(marked, trie, ids, da_node, st_node, Edges(trie, st_node), mk),
                trie, ids, vi + 1, mk)

add_fails(da, trie, mk) ==
    LET root == [states |-> [da.states EXCEPT ![ROOT_STATE_IDX + 1] =
                                 State_set_fail(@, ROOT_STATE_IDX)],
                 visits |-> <<>>]
    IN fail_visits(fail_children(root, trie, da.ids, ROOT_STATE_IDX, 1, Edges(trie, 1), mk),
                   trie, da.ids, 1, mk)

\* The records inherited by a state whose fail is f: the patterns ending at
\* the states of the fail chain, longest first (Standard only).
RECURSIVE inherited_outputs(_, _, _, _)
inherited_outputs(sts, trie, visits, f) ==
    IF f = ROOT_STATE_IDX THEN <<>>
    ELSE LET st == (CHOOSE v \in 1..Len(visits) : visits[v][1] = f)
             own == trie.output[visits[st][2]]
         IN (IF own[2] # 0 THEN <<Output_new(own[1], own[2], FALSE)>> ELSE <<>>)
            \o inherited_outputs(sts, trie, visits, State_fail(StateAt(sts, f)))

\* acc = [states, outputs]
RECURSIVE build_outputs(_, _, _, _, _)
build_outputs(acc, trie, visits, vi, mk) ==
    IF vi > Len(visits)
    THEN [acc EXCEPT !.outputs = Append(@, Output_new(0, 0, TRUE))]
    ELSE LET da_node == visits[vi][1]
             own == trie.output[visits[vi][2]]
         IN IF own[2] = 0 THEN build_outputs(acc, trie, visits, vi + 1, mk)
            ELSE build_outputs(
                     [states |-> [acc.states EXCEPT ![da_node + 1] =
                                      State_set_output_pos(@, Len(acc.outputs))],
                      outputs |-> acc.outputs \o <<Output_new(own[1], own[2], TRUE)>>
                                  \o (IF is_standard(mk)
                                      THEN inherited_outputs(acc.states, trie, visits,
                                               State_fail(StateAt(acc.states, da_node)))
                                      ELSE <<>>)],
                     trie, visits, vi + 1, mk)

\* A state that ends no pattern takes the run of its fail state.
RECURSIVE set_dummy_outputs(_, _, _)
set_dummy_outputs(sts, visits, vi) ==
    IF vi > Len(visits) THEN sts
    ELSE LET da_node == visits[vi][1]
             s == StateAt(sts, da_node)
             fail_pos == State_output_pos(StateAt(sts, State_fail(s)))
         IN set_dummy_outputs(
                IF ~IsSome(State_output_pos(s)) /\ IsSome(fail_pos)
                THEN [sts EXCEPT ![da_node + 1] = State_set_output_pos(@, Unwrap(fail_pos))]
                ELSE sts,
                visits, vi + 1)

\* Variant of build_with_values that cuts the state array after the last
\* cell that has a base or an output.
build_with_values_Truncated(patvals, mk) ==
    LET trie == build_sparse_trie(SparseTrie_new, patvals, 1, mk)
        da == build_double_array(trie)
        failed == add_fails(da, trie, mk)
        out == build_outputs([states |-> failed.states, outputs |-> <<>>],
                             trie, failed.visits, 1, mk)
        sts == set_dummy_outputs(out.states, failed.visits, 1)
        last == CHOOSE i \in 1..Len(sts) :
                    /\ IsSome(State_base(sts[i])) \/ IsSome(State_output_pos(sts[i]))
                    /\ \A j \in (i + 1)..Len(sts) :
                          ~IsSome(State_base(sts[j])) /\ ~IsSome(State_output_pos(sts[j]))
    IN [states |-> SubSeq(sts, 1, last),
        outputs |-> out.outputs,
        match_kind |-> mk,
        num_states |-> Len(trie.nodes)]

build_with_values(patvals, mk) ==
    LET trie == build_sparse_trie(SparseTrie_new, patvals, 1, mk)
        da == build_double_array(trie)
        failed == add_fails(da, trie, mk)
        out == build_outputs([states |-> failed.states, outputs |-> <<>>],
                             trie, failed.visits, 1, mk)
    IN [states |-> set_dummy_outputs(out.states, failed.visits, 1),
        outputs |-> out.outputs,
        match_kind |-> mk,
        num_states |-> Len(trie.nodes)]

\* build(patterns): the value i is given to patterns[i] (zero-based).
build(patterns, mk) ==
    build_with_values([i \in 1..Len(patterns) |-> [pat |-> patterns[i], val |-> i - 1]], mk)

\* DoubleArrayAhoCorasick::new and ::with_values use the default builder.
DoubleArrayAhoCorasick_new(patterns) == build(patterns, Standard)
DoubleArrayAhoCorasick_with_values(patvals) == build_with_values(patvals, Standard)

----------------------------------------------------------------------------
(* The inputs the model draws from *)

Strings(n) == UNION {[1..k -> Alphabet] : k \in 1..n}

\* Lists of distinct non-empty patterns whose lengths sum to at most budget
\* (duplicate and empty patterns are rejected by the builder with an error).
RECURSIVE PatternLists(_)
PatternLists(budget) ==
    {<<>>} \cup
    UNION {{<<p>> \o rest : rest \in {r \in PatternLists(budget - Len(p)) :
                                          \A k \in 1..Len(r) : r[k] # p}} :
           p \in Strings(budget)}

\* The pattern lists of the doc tests of lib.rs: bcd, ab, a (lib.rs:28),
\* bcd, cd, abc (lib.rs:675), ab, abcd (lib.rs:737) and bcd, ab, a, e
\* (lib.rs:536).
DocPatterns ==
    {<< <<98, 99, 100>>, <<97, 98>>, <<97>> >>,
     << <<98, 99, 100>>, <<99, 100>>, <<97, 98, 99>> >>,
     << <<97, 98>>, <<97, 98, 99, 100>> >>,
     << <<98, 99, 100>>, <<97, 98>>, <<97>>, <<101>> >>}

\* Their haystacks: abcd and abcde.
DocHaystacks == {<<97, 98, 99, 100>>, <<97, 98, 99, 100, 101>>}

PatternInputs == (PatternLists(MaxTotalLen) \ {<<>>}) \cup DocPatterns

Haystacks == UNION {[1..k -> Alphabet] : k \in 0..MaxHayLen} \cup DocHaystacks

\* What an unchecked read past the end of the output array may yield.
AnyOutput == {Output_new(v, l, b) : v \in {0, 1}, l \in {0, 1}, b \in BOOLEAN}

----------------------------------------------------------------------------
(* State *)

VARIABLES
    states,        \* DoubleArrayAhoCorasick.states
    outputs,       \* DoubleArrayAhoCorasick.outputs
    match_kind,    \* DoubleArrayAhoCorasick.match_kind
    num_states,    \* DoubleArrayAhoCorasick.num_states
    patterns,      \* the patterns given to the constructor, in input order
    values,        \* the values given to with_values(), <<>> for the others
    ctor,          \* the constructor used: "new", "with_values" or "builder"
    haystack,      \* the haystack borrowed by the iterator
    it_kind,       \* which iterator exists ("None" before a factory is called)
    it_pos,        \* iterator field pos
    it_state_id,   \* iterator field state_id (overlapping iterators)
    it_output_pos, \* iterator field output_pos (FindOverlappingIterator)
    returned,      \* what the next() calls returned so far, in order
    panicked,      \* <<>>, or <<the kind of assertion that failed, the method>>
    introspected,  \* <<>> or <<method, result>> of the introspection call made
    sharers        \* the iterators that borrow the automaton side by side

pma_vars == <<states, outputs, match_kind, num_states, patterns, values, ctor>>
it_vars == <<haystack, it_kind, it_pos, it_state_id, it_output_pos, returned>>
vars == <<states, outputs, match_kind, num_states, patterns, values, ctor, haystack, it_kind,
          it_pos, it_state_id, it_output_pos, returned, panicked, introspected, sharers>>

\* The names of the iterators that borrow one automaton side by side.
Sharers == {"A", "B"}

\* The fields of an iterator, and what its next() calls returned so far;
\* kind is "None" until the iterator is created.
NoIterator ==
    [kind |-> "None", haystack |-> <<>>, pos |-> 0, state_id |-> ROOT_STATE_IDX,
     output_pos |-> 0, returned |-> <<>>]

Constructed(pma, pats, vals, how) ==
    /\ states = pma.states
    /\ outputs = pma.outputs
    /\ match_kind = pma.match_kind
    /\ num_states = pma.num_states
    /\ patterns = pats
    /\ values = vals
    /\ ctor = how

\* The value lists a caller of with_values() passes for n patterns.  A value
\* is a payload the automaton stores and returns untouched, so of the lists
\* that differ only by exchanging the two values one is kept.
ValueLists(n) == {vals \in [1..n -> CallerValues] : vals[1] = SetMin(CallerValues)}

Zip(pats, vals) == [i \in 1..Len(pats) |-> [pat |-> pats[i], val |-> vals[i]]]

\* The automaton is built by new(patterns), by with_values(patvals) or, for
\* the leftmost kinds, by the builder with match_kind(mk) and build(patterns).
Init ==
    /\ \E pats \in PatternInputs :
          \/ \E pma \in {DoubleArrayAhoCorasick_new(pats)} :
                 Constructed(pma, pats, <<>>, "new")
          \/ \E vals \in ValueLists(Len(pats)) :
                 \E pma \in {DoubleArrayAhoCorasick_with_values(Zip(pats, vals))} :
                    Constructed(pma, pats, vals, "with_values")
          \/ \E mk \in {LeftmostLongest, LeftmostFirst} :
                 \E pma \in {build(pats, mk)} :
                    Constructed(pma, pats, <<>>, "builder")
    /\ haystack = <<>>
    /\ it_kind = "None"
    /\ it_pos = 0
    /\ it_state_id = ROOT_STATE_IDX
    /\ it_output_pos = 0
    /\ returned = <<>>
    /\ panicked = <<>>
    /\ introspected = <<>>
    /\ sharers = [s \in Sharers |-> NoIterator]

----------------------------------------------------------------------------
(* Factory methods *)

Idle == it_kind = "None" /\ panicked = <<>> /\ introspected = <<>>

\* assert!(cond, ...) of a factory method, then the iterator it builds
Factory(method, cond, kind, h) ==
    /\ Idle
    /\ UNCHANGED <<pma_vars, sharers, introspected>>
    /\ IF cond
       THEN /\ haystack' = h
            /\ it_kind' = kind
            /\ it_pos' = 0
            /\ it_state_id' = ROOT_STATE_IDX
            /\ it_output_pos' = 0
            /\ UNCHANGED <<returned, panicked>>
       ELSE /\ panicked' = <<"assert", method>>
            /\ UNCHANGED it_vars

find_iter ==
    \E h \in Haystacks : Factory("find_iter", is_standard(match_kind), "FindIterator", h)

find_overlapping_iter ==
    \E h \in Haystacks :
        Factory("find_overlapping_iter", is_standard(match_kind), "FindOverlappingIterator", h)

find_overlapping_no_suffix_iter ==
    \E h \in Haystacks :
        Factory("find_overlapping_no_suffix_iter", is_standard(match_kind),
                "FindOverlappingNoSuffixIterator", h)

leftmost_find_iter ==
    \E h \in Haystacks :
        Factory("leftmost_find_iter", is_leftmost(match_kind), "LestmostFindIterator", h)

----------------------------------------------------------------------------
(* Introspection *)

SizeOfU32 == 4
\* std::mem::size_of::<State>(): base, fach, output_pos
SizeOfState == 3 * SizeOfU32
\* std::mem::size_of::<Output>(): value, length
SizeOfOutput == 2 * SizeOfU32

\* Variant of heap_bytes that sizes the output records like state records.
heap_bytes_of_OneSize(sts, outs) == (Len(sts) * SizeOfState) + (Len(outs) * SizeOfState)

heap_bytes_of(sts, outs) == (Len(sts) * SizeOfState) + (Len(outs) * SizeOfOutput)

heap_bytes ==
    /\ Idle
    /\ introspected' = <<"heap_bytes", heap_bytes_of(states, outputs)>>
    /\ UNCHANGED <<pma_vars, sharers, it_vars, panicked>>

\* Variant of num_states() that reports the length of the state array.
num_states_of_ArrayLen(sts, n) == Len(sts)
\* num_states() of an automaton with state array sts and num_states field n
num_states_of(sts, n) == n

num_states_call ==
    /\ Idle
    /\ introspected' = <<"num_states", num_states_of(states, num_states)>>
    /\ UNCHANGED <<pma_vars, sharers, it_vars, panicked>>

----------------------------------------------------------------------------
(* Iterator::next *)

OutputAt(outs, i) == outs[i + 1]
MatchOf(out, end) == Match(Output_length(out), end, Output_value(out))
NoneCount(rets) == Cardinality({k \in 1..Len(rets) : rets[k] = None})
CanCall(kind) == it_kind = kind /\ panicked = <<>> /\ NoneCount(returned) <= MaxNoneCalls

\* The scan loop of FindIterator::next from byte pos on: the state and the
\* position at which the first state with a valid output_pos is entered.
RECURSIVE FindIterator_scan(_, _, _, _)
FindIterator_scan(sts, hay, pos, state_id) ==
    IF pos >= Len(hay) THEN [found |-> FALSE, pos |-> Len(hay), state_id |-> state_id]
    ELSE LET next_id == get_next_state_id_unchecked(sts, state_id, hay[pos + 1])
             output_pos == State_output_pos(StateAt(sts, next_id))
         IN IF IsSome(output_pos)
            THEN [found |-> TRUE, pos |-> pos, state_id |-> next_id,
                  output_pos |-> Unwrap(output_pos)]
            ELSE FindIterator_scan(sts, hay, pos + 1, next_id)

\* Variant of FindIterator::next that rewinds pos to the start of the
\* haystack when it returns None.
FindIterator_step_RewindOnNone(sts, outs, hay, pos) ==
    LET r == FindIterator_scan(sts, hay, pos, ROOT_STATE_IDX) IN
    IF r.found
    THEN [pos |-> r.pos + 1, ret |-> Some(MatchOf(OutputAt(outs, r.output_pos), r.pos + 1))]
    ELSE [pos |-> 0, ret |-> None]

\* Variant of FindIterator::next that resumes one byte after the start of the
\* match instead of at its end.
FindIterator_step_ResumeAfterStart(sts, outs, hay, pos) ==
    LET r == FindIterator_scan(sts, hay, pos, ROOT_STATE_IDX) IN
    IF r.found
    THEN [pos |-> r.pos + 2 - Output_length(OutputAt(outs, r.output_pos)),
          ret |-> Some(MatchOf(OutputAt(outs, r.output_pos), r.pos + 1))]
    ELSE [pos |-> Len(hay), ret |-> None]

\* FindIterator::next as a function of the iterator: the new pos and the
\* value returned.
FindIterator_step(sts, outs, hay, pos) ==
    LET r == FindIterator_scan(sts, hay, pos, ROOT_STATE_IDX) IN
    IF r.found
    THEN [pos |-> r.pos + 1, ret |-> Some(MatchOf(OutputAt(outs, r.output_pos), r.pos + 1))]
    ELSE [pos |-> Len(hay), ret |-> None]

FindIterator_next ==
    /\ CanCall("FindIterator")
    /\ LET r == FindIterator_step(states, outputs, haystack, it_pos) IN
       /\ it_pos' = r.pos
       /\ returned' = Append(returned, r.ret)
    /\ UNCHANGED <<pma_vars, sharers, haystack, it_kind, it_state_id, it_output_pos, panicked,
                   introspected>>

RECURSIVE FindOverlappingIterator_scan(_, _, _, _)
FindOverlappingIterator_scan(sts, hay, pos, state_id) ==
    IF pos >= Len(hay) THEN [found |-> FALSE, pos |-> Len(hay), state_id |-> state_id]
    ELSE LET next_id == get_next_state_id_unchecked(sts, state_id, hay[pos + 1])
             output_pos == State_output_pos(StateAt(sts, next_id))
         IN IF IsSome(output_pos)
            THEN [found |-> TRUE, pos |-> pos, state_id |-> next_id,
                  output_pos |-> Unwrap(output_pos)]
            ELSE FindOverlappingIterator_scan(sts, hay, pos + 1, next_id)

\* Variant of FindOverlappingIterator::next that leaves the cursor on the head
\* of the run.
FindOverlappingIterator_step_CursorOnHead(sts, outs, hay, state_id, pos, cursor, out) ==
    IF ~Output_is_begin(out)
    THEN [state_id |-> state_id, pos |-> pos, output_pos |-> cursor + 1,
          ret |-> Some(MatchOf(out, pos))]
    ELSE LET r == FindOverlappingIterator_scan(sts, hay, pos, state_id) IN
         IF r.found
         THEN [state_id |-> r.state_id, pos |-> r.pos + 1, output_pos |-> r.output_pos,
               ret |-> Some(MatchOf(OutputAt(outs, r.output_pos), r.pos + 1))]
         ELSE [state_id |-> r.state_id, pos |-> Len(hay), output_pos |-> cursor,
               ret |-> None]

\* Variant of FindOverlappingIterator::next that, on a head, leaves pos on the
\* byte just read.
FindOverlappingIterator_step_PosOnByte(sts, outs, hay, state_id, pos, cursor, out) ==
    IF ~Output_is_begin(out)
    THEN [state_id |-> state_id, pos |-> pos, output_pos |-> cursor + 1,
          ret |-> Some(MatchOf(out, pos))]
    ELSE LET r == FindOverlappingIterator_scan(sts, hay, pos, state_id) IN
         IF r.found
         THEN [state_id |-> r.state_id, pos |-> r.pos, output_pos |-> r.output_pos + 1,
               ret |-> Some(MatchOf(OutputAt(outs, r.output_pos), r.pos + 1))]
         ELSE [state_id |-> r.state_id, pos |-> Len(hay), output_pos |-> cursor,
               ret |-> None]

\* FindOverlappingIterator::next; out is the record read at the cursor.
FindOverlappingIterator_step(sts, outs, hay, state_id, pos, cursor, out) ==
    IF ~Output_is_begin(out)
    THEN [state_id |-> state_id, pos |-> pos, output_pos |-> cursor + 1,
          ret |-> Some(MatchOf(out, pos))]
    ELSE LET r == FindOverlappingIterator_scan(sts, hay, pos, state_id) IN
         IF r.found
         THEN [state_id |-> r.state_id, pos |-> r.pos + 1, output_pos |-> r.output_pos + 1,
               ret |-> Some(MatchOf(OutputAt(outs, r.output_pos), r.pos + 1))]
         ELSE [state_id |-> r.state_id, pos |-> Len(hay), output_pos |-> cursor,
               ret |-> None]

FindOverlappingIterator_next ==
    /\ CanCall("FindOverlappingIterator")
    /\ \E out \in (IF it_output_pos < Len(outputs)
                   THEN {OutputAt(outputs, it_output_pos)} ELSE AnyOutput) :
          LET r == FindOverlappingIterator_step(states, outputs, haystack, it_state_id,
                                                it_pos, it_output_pos, out) IN
          /\ it_state_id' = r.state_id
          /\ it_pos' = r.pos
          /\ it_output_pos' = r.output_pos
          /\ returned' = Append(returned, r.ret)
    /\ UNCHANGED <<pma_vars, sharers, haystack, it_kind, panicked, introspected>>

RECURSIVE FindOverlappingNoSuffixIterator_scan(_, _, _, _)
FindOverlappingNoSuffixIterator_scan(sts, hay, pos, state_id) ==
    IF pos >= Len(hay) THEN [found |-> FALSE, pos |-> Len(hay), state_id |-> state_id]
    ELSE LET next_id == get_next_state_id_unchecked(sts, state_id, hay[pos + 1])
             output_pos == State_output_pos(StateAt(sts, next_id))
         IN IF IsSome(output_pos)
            THEN [found |-> TRUE, pos |-> pos, state_id |-> next_id,
                  output_pos |-> Unwrap(output_pos)]
            ELSE FindOverlappingNoSuffixIterator_scan(sts, hay, pos + 1, next_id)

\* Variant of FindOverlappingNoSuffixIterator::next that restarts every call
\* at ROOT, as FindIterator::next does.
FindOverlappingNoSuffixIterator_step_FromRoot(sts, outs, hay, state_id, pos) ==
    LET r == FindOverlappingNoSuffixIterator_scan(sts, hay, pos, ROOT_STATE_IDX) IN
    IF r.found
    THEN [state_id |-> r.state_id, pos |-> r.pos + 1,
          ret |-> Some(MatchOf(OutputAt(outs, r.output_pos), r.pos + 1))]
    ELSE [state_id |-> r.state_id, pos |-> Len(hay), ret |-> None]

FindOverlappingNoSuffixIterator_step(sts, outs, hay, state_id, pos) ==
    LET r == FindOverlappingNoSuffixIterator_scan(sts, hay, pos, state_id) IN
    IF r.found
    THEN [state_id |-> r.state_id, pos |-> r.pos + 1,
          ret |-> Some(MatchOf(OutputAt(outs, r.output_pos), r.pos + 1))]
    ELSE [state_id |-> r.state_id, pos |-> Len(hay), ret |-> None]

FindOverlappingNoSuffixIterator_next ==
    /\ CanCall("FindOverlappingNoSuffixIterator")
    /\ LET r == FindOverlappingNoSuffixIterator_step(states, outputs, haystack,
                                                     it_state_id, it_pos) IN
       /\ it_state_id' = r.state_id
       /\ it_pos' = r.pos
       /\ returned' = Append(returned, r.ret)
    /\ UNCHANGED <<pma_vars, sharers, haystack, it_kind, it_output_pos, panicked, introspected>>

\* Variant of the scan loop of LestmostFindIterator::next that stops at the
\* first acceptance.
RECURSIVE LestmostFindIterator_scan_FirstAccept(_, _, _, _, _, _)
LestmostFindIterator_scan_FirstAccept(sts, hay, pos, state_id, last, self_pos) ==
    IF pos >= Len(hay)
    THEN [last |-> last, pos |-> self_pos, asserted |-> TRUE, dead |-> FALSE]
    ELSE LET next_id == get_next_state_id_leftmost_unchecked(sts, state_id, hay[pos + 1]) IN
         IF next_id = DEAD_STATE_IDX
         THEN [last |-> last, pos |-> self_pos, asserted |-> IsSome(last), dead |-> TRUE]
         ELSE LET output_pos == State_output_pos(StateAt(sts, next_id)) IN
              IF IsSome(output_pos)
              THEN [last |-> output_pos, pos |-> pos + 1, asserted |-> TRUE, dead |-> FALSE]
              ELSE LestmostFindIterator_scan_FirstAccept(sts, hay, pos + 1, next_id, last,
                                                         self_pos)

\* The scan loop of LestmostFindIterator::next.  self_pos is self.pos,
\* last is last_output_pos (<<>> for OUTPUT_POS_INVALID); dead is TRUE when
\* the loop was left on DEAD, asserted is FALSE once debug_assert_ne! has met
\* an invalid last_output_pos.
RECURSIVE LestmostFindIterator_scan(_, _, _, _, _, _)
LestmostFindIterator_scan(sts, hay, pos, state_id, last, self_pos) ==
    IF pos >= Len(hay)
    THEN [last |-> last, pos |-> self_pos, asserted |-> TRUE, dead |-> FALSE]
    ELSE LET next_id == get_next_state_id_leftmost_unchecked(sts, state_id, hay[pos + 1]) IN
         IF next_id = DEAD_STATE_IDX
         THEN [last |-> last, pos |-> self_pos, asserted |-> IsSome(last), dead |-> TRUE]
         ELSE LET output_pos == State_output_pos(StateAt(sts, next_id)) IN
              IF IsSome(output_pos)
              THEN LestmostFindIterator_scan(sts, hay, pos + 1, next_id, output_pos, pos + 1)
              ELSE LestmostFindIterator_scan(sts, hay, pos + 1, next_id, last, self_pos)

\* Variant of LestmostFindIterator::next that leaves pos where the call
\* found it.
LestmostFindIterator_step_KeepPos(sts, outs, hay, pos) ==
    LET r == LestmostFindIterator_scan(sts, hay, pos, ROOT_STATE_IDX, None, pos) IN
    IF ~IsSome(r.last)
    THEN [pos |-> pos, ret |-> None, asserted |-> r.asserted, dead |-> r.dead]
    ELSE [pos |-> pos, ret |-> Some(MatchOf(OutputAt(outs, Unwrap(r.last)), r.pos)),
          asserted |-> r.asserted, dead |-> r.dead]

\* Variant of LestmostFindIterator::next that reports the byte at which the
\* scan stopped as the end of the match.
LestmostFindIterator_step_EndAtStop(sts, outs, hay, pos) ==
    LET r == LestmostFindIterator_scan(sts, hay, pos, ROOT_STATE_IDX, None, pos) IN
    IF ~IsSome(r.last)
    THEN [pos |-> r.pos, ret |-> None, asserted |-> r.asserted, dead |-> r.dead]
    ELSE [pos |-> r.pos, ret |-> Some(MatchOf(OutputAt(outs, Unwrap(r.last)), Len(hay))),
          asserted |-> r.asserted, dead |-> r.dead]

LestmostFindIterator_step(sts, outs, hay, pos) ==
    LET r == LestmostFindIterator_scan(sts, hay, pos, ROOT_STATE_IDX, None, pos) IN
    IF ~IsSome(r.last)
    THEN [pos |-> r.pos, ret |-> None, asserted |-> r.asserted, dead |-> r.dead]
    ELSE [pos |-> r.pos, ret |-> Some(MatchOf(OutputAt(outs, Unwrap(r.last)), r.pos)),
          asserted |-> r.asserted, dead |-> r.dead]

\* A failed debug_assert_ne! panics in a build with debug assertions and
\* is skipped in one without.
LestmostFindIterator_next ==
    /\ CanCall("LestmostFindIterator")
    /\ LET r == LestmostFindIterator_step(states, outputs, haystack, it_pos) IN
       \E debug_assertions \in (IF r.asserted THEN {FALSE} ELSE BOOLEAN) :
          IF debug_assertions
          THEN /\ panicked' = <<"debug_assert", "next">>
               /\ UNCHANGED <<it_pos, returned>>
          ELSE /\ it_pos' = r.pos
               /\ returned' = Append(returned, r.ret)
               /\ UNCHANGED panicked
    /\ UNCHANGED <<pma_vars, sharers, haystack, it_kind, it_state_id, it_output_pos, introspected>>

----------------------------------------------------------------------------
(* Several iterators on one automaton *)

\* The iterator a factory method builds on haystack h.
NewIterator(kind, h) == [NoIterator EXCEPT !.kind = kind, !.haystack = h]

\* The condition the factory method of an iterator kind asserts.
FactoryAllows(kind) ==
    IF kind = "LestmostFindIterator" THEN is_leftmost(match_kind) ELSE is_standard(match_kind)

\* One next() call on iterator it of an automaton with arrays sts and outs:
\* the iterator after the call, the returned value appended to it.returned.
Iterator_step(sts, outs, it) ==
    IF it.kind = "FindIterator"
    THEN LET r == FindIterator_step(sts, outs, it.haystack, it.pos) IN
         [it EXCEPT !.pos = r.pos, !.returned = Append(@, r.ret)]
    ELSE IF it.kind = "FindOverlappingIterator"
    THEN LET r == FindOverlappingIterator_step(sts, outs, it.haystack, it.state_id, it.pos,
                                               it.output_pos,
                                               OutputAt(outs, it.output_pos)) IN
         [it EXCEPT !.state_id = r.state_id, !.pos = r.pos, !.output_pos = r.output_pos,
                    !.returned = Append(@, r.ret)]
    ELSE IF it.kind = "FindOverlappingNoSuffixIterator"
    THEN LET r == FindOverlappingNoSuffixIterator_step(sts, outs, it.haystack, it.state_id,
                                                       it.pos) IN
         [it EXCEPT !.state_id = r.state_id, !.pos = r.pos, !.returned = Append(@, r.ret)]
    ELSE LET r == LestmostFindIterator_step(sts, outs, it.haystack, it.pos) IN
         [it EXCEPT !.pos = r.pos, !.returned = Append(@, r.ret)]

\* The haystacks of the iterators created so far.
BorrowedHaystacks == {sharers[s].haystack : s \in {t \in Sharers : sharers[t].kind # "None"}}

\* The factory methods in the order of their definitions (lib.rs:589-780).
FactoryOrder ==
    <<"FindIterator", "FindOverlappingIterator", "FindOverlappingNoSuffixIterator",
      "LestmostFindIterator">>

FactoryRank(kind) == CHOOSE i \in 1..Len(FactoryOrder) : FactoryOrder[i] = kind

\* A factory method called on the shared automaton for iterator s, "A" being
\* the first created.  The iterators search one haystack of MaxHayLen bytes,
\* each with its own reference to it; of the two ways of giving two kinds to
\* "A" and "B" one is kept.
share_iter(s) ==
    /\ sharers[s].kind = "None"
    /\ s = "A" \/ sharers["A"].kind # "None"
    /\ \E kind \in {k \in IteratorKinds :
                      s = "A" \/ FactoryRank(k) >= FactoryRank(sharers["A"].kind)} :
          \E h \in (IF BorrowedHaystacks = {} THEN [1..MaxHayLen -> Alphabet]
                    ELSE BorrowedHaystacks) :
             /\ FactoryAllows(kind)
             /\ sharers' = [sharers EXCEPT ![s] = NewIterator(kind, h)]
    /\ UNCHANGED <<pma_vars, it_vars, panicked, introspected>>

\* Variant of next() on a shared automaton that keeps pos in one place for
\* all the iterators.
SharedIterator_next_OnePos(s) ==
    /\ sharers[s].kind # "None"
    /\ NoneCount(sharers[s].returned) = 0
    /\ LET it == Iterator_step(states, outputs, sharers[s]) IN
       sharers' = [t \in Sharers |->
                     IF t = s THEN it
                     ELSE IF sharers[t].kind = "None" THEN sharers[t]
                     ELSE [sharers[t] EXCEPT !.pos = it.pos]]
    /\ UNCHANGED <<pma_vars, it_vars, panicked, introspected>>

\* next() on iterator s (&mut self; the automaton is behind a shared
\* reference), until it has returned None.
SharedIterator_next(s) ==
    /\ sharers[s].kind # "None"
    /\ NoneCount(sharers[s].returned) = 0
    /\ sharers' = [sharers EXCEPT ![s] = Iterator_step(states, outputs, sharers[s])]
    /\ UNCHANGED <<pma_vars, it_vars, panicked, introspected>>

\* The automata of Init that new() or the builder makes: the values of
\* with_values() are a payload no cursor depends on.
InitShared == Init /\ ctor # "with_values"

NextShared ==
    \/ \E s \in Sharers : share_iter(s)
    \/ \E s \in Sharers : SharedIterator_next(s)

SpecShared == InitShared /\ [][NextShared]_vars

----------------------------------------------------------------------------
(* The accessors of State and Output on one record each: states holds the  *)
(* State, outputs the Output, introspected the call made last.             *)

\* u8 arguments of set_check
CheckInputs == {0, 1, 97, 255}
\* u32 arguments of set_fail, up to FAIL_MAX
FailInputs == {0, 1, 255, 256, 65536, FAIL_MAX}
\* u32 arguments of set_base and set_output_pos
IndexInputs == {0, 353}
\* value arguments of Output::new
ValueInputs == {0, 65537, 2147483647}
\* length arguments of Output::new, below 2^31
LengthInputs == {0, 1, 32768, 2147483647}

InitRecords ==
    /\ states = <<State_default>>
    /\ outputs = <<Output_new(0, 0, FALSE)>>
    /\ match_kind = Standard
    /\ num_states = 0
    /\ patterns = <<>>
    /\ values = <<>>
    /\ ctor = "new"
    /\ haystack = <<>>
    /\ it_kind = "None"
    /\ it_pos = 0
    /\ it_state_id = ROOT_STATE_IDX
    /\ it_output_pos = 0
    /\ returned = <<>>
    /\ panicked = <<>>
    /\ introspected = <<>>
    /\ sharers = [s \in Sharers |-> NoIterator]

\* A setter of State called on the record, with the record it found.
StateCall(method, x, after) ==
    /\ states' = <<after>>
    /\ introspected' = <<method, x, states[1]>>
    /\ UNCHANGED <<outputs, match_kind, num_states, patterns, values, ctor, it_vars, panicked,
                   sharers>>

State_set_check_call ==
    \E x \in CheckInputs : StateCall("set_check", x, State_set_check(states[1], x))

State_set_fail_call ==
    \E x \in FailInputs : StateCall("set_fail", x, State_set_fail(states[1], x))

State_set_base_call ==
    \E x \in IndexInputs : StateCall("set_base", x, State_set_base(states[1], x))

State_set_output_pos_call ==
    \E x \in IndexInputs : StateCall("set_output_pos", x, State_set_output_pos(states[1], x))

Output_new_call ==
    \E value \in ValueInputs : \E length \in LengthInputs : \E is_begin \in BOOLEAN :
        /\ outputs' = <<Output_new(value, length, is_begin)>>
        /\ introspected' = <<"Output::new", value, length, is_begin>>
        /\ UNCHANGED <<states, match_kind, num_states, patterns, values, ctor, it_vars, panicked,
                       sharers>>

NextRecords ==
    \/ State_set_check_call
    \/ State_set_fail_call
    \/ State_set_base_call
    \/ State_set_output_pos_call
    \/ Output_new_call

SpecRecords == InitRecords /\ [][NextRecords]_vars

----------------------------------------------------------------------------

Next ==
    \/ find_iter
    \/ find_overlapping_iter
    \/ find_overlapping_no_suffix_iter
    \/ leftmost_find_iter
    \/ heap_bytes
    \/ num_states_call
    \/ FindIterator_next
    \/ FindOverlappingIterator_next
    \/ FindOverlappingNoSuffixIterator_next
    \/ LestmostFindIterator_next

Spec == Init /\ [][Next]_vars

----------------------------------------------------------------------------
(* Well-formedness of the state *)

TypeOK ==
    /\ match_kind \in MatchKind
    /\ it_kind \in {"None", "FindIterator", "FindOverlappingIterator",
                    "FindOverlappingNoSuffixIterator", "LestmostFindIterator"}
    /\ it_pos \in 0..Len(haystack)
    /\ panicked = <<>> \/ panicked[1] \in {"assert", "debug_assert"}

----------------------------------------------------------------------------
(* Reference definitions, stated on the patterns and the haystack alone *)

\* The value registered for patterns[k].
RegisteredValue(k) == IF ctor = "with_values" THEN values[k] ELSE k - 1

\* patterns[k] occurs in h at byte offset i.
OccursAt(h, k, i) ==
    /\ i + Len(patterns[k]) <= Len(h)
    /\ SubSeq(h, i + 1, i + Len(patterns[k])) = patterns[k]

Triple(m) == <<Match_start(m), Match_end(m), Match_value(m)>>

\* The matches returned so far, in order.
RECURSIVE SomesOf(_)
SomesOf(rets) ==
    IF rets = <<>> THEN <<>>
    ELSE (IF IsSome(Head(rets)) THEN <<Unwrap(Head(rets))>> ELSE <<>>) \o SomesOf(Tail(rets))

Emitted == SomesOf(returned)
Drained == NoneCount(returned) >= 1

BagOfSeq(seq) ==
    [e \in {seq[k] : k \in 1..Len(seq)} |-> Cardinality({k \in 1..Len(seq) : seq[k] = e})]

AllOccurrences(h) ==
    {<<i, i + Len(patterns[k]), RegisteredValue(k)>> :
        <<k, i>> \in {ki \in (1..Len(patterns)) \X (0..Len(h)) : OccursAt(h, ki[1], ki[2])}}

IsPrefix(a, b) == Len(a) <= Len(b) /\ SubSeq(b, 1, Len(a)) = a

----------------------------------------------------------------------------
(* C1 *)

\* C1: once find_overlapping_iter(H) on a Standard automaton is drained, the
\* multiset of (start, end, value) it returned is exactly the set of all
\* occurrences (i, j, v) of the registered patterns in H, each once.
C1_OverlappingReportsEveryOccurrenceOnce ==
    (it_kind = "FindOverlappingIterator" /\ Drained) =>
        BagOfSeq([k \in 1..Len(Emitted) |-> Triple(Emitted[k])])
            = SetToBag(AllOccurrences(haystack))

\* Before the iterator is drained it has returned nothing but occurrences,
\* none of them twice.
C1_OverlappingSound ==
    it_kind = "FindOverlappingIterator" =>
        /\ \A k \in 1..Len(Emitted) : Triple(Emitted[k]) \in AllOccurrences(haystack)
        /\ \A k, l \in 1..Len(Emitted) : Emitted[k] = Emitted[l] => k = l

\* A drained overlapping search that returned two matches sharing their end.
C1_Witness ==
    /\ it_kind = "FindOverlappingIterator"
    /\ Drained
    /\ \E k, l \in 1..Len(Emitted) :
          /\ Match_end(Emitted[k]) = Match_end(Emitted[l])
          /\ Match_start(Emitted[k]) < Match_start(Emitted[l])

\* lib.rs:28-42: bcd, ab, a over abcd gives (0,1,2), (0,2,1), (1,4,0), None.
DocOverlappingExample ==
    (/\ it_kind = "FindOverlappingIterator"
     /\ ctor = "new"
     /\ patterns = << <<98, 99, 100>>, <<97, 98>>, <<97>> >>
     /\ haystack = <<97, 98, 99, 100>>
     /\ Drained) =>
        [k \in 1..Len(Emitted) |-> Triple(Emitted[k])] = << <<0, 1, 2>>, <<0, 2, 1>>, <<1, 4, 0>> >>

----------------------------------------------------------------------------
(* C2 *)

\* The patterns ending at byte offset j of h that start at or after e.
EndingAt(h, e, j) ==
    {k \in 1..Len(patterns) : j - Len(patterns[k]) >= e /\ OccursAt(h, k, j - Len(patterns[k]))}

LongestOf(ks) == CHOOSE k \in ks : \A k2 \in ks : Len(patterns[k2]) <= Len(patterns[k])

MatchOfPattern(k, end) == Match(Len(patterns[k]), end, RegisteredValue(k))

\* The non-overlapping reference: from e on, the smallest end of an
\* occurrence lying in h[e..], the longest pattern ending there, and again
\* from that end.
RECURSIVE RefFind(_, _)
RefFind(h, e) ==
    LET ends == {j \in (e + 1)..Len(h) : EndingAt(h, e, j) # {}} IN
    IF ends = {} THEN <<>>
    ELSE LET j == SetMin(ends) IN
         <<MatchOfPattern(LongestOf(EndingAt(h, e, j)), j)>> \o RefFind(h, j)

\* Everything find_overlapping_iter(hay) returns before its first None, by
\* repeated FindOverlappingIterator::next from the fresh iterator.
RECURSIVE OverlappingFrom(_, _, _, _, _, _)
OverlappingFrom(sts, outs, hay, state_id, pos, cursor) ==
    LET r == FindOverlappingIterator_step(sts, outs, hay, state_id, pos, cursor,
                                          OutputAt(outs, cursor)) IN
    IF ~IsSome(r.ret) THEN <<>>
    ELSE <<Unwrap(r.ret)>> \o OverlappingFrom(sts, outs, hay, r.state_id, r.pos, r.output_pos)

OverlappingAll(sts, outs, hay) == OverlappingFrom(sts, outs, hay, ROOT_STATE_IDX, 0, 0)

RECURSIVE IsSubseq(_, _)
IsSubseq(a, b) ==
    IF a = <<>> THEN TRUE
    ELSE IF b = <<>> THEN FALSE
    ELSE IF Head(a) = Head(b) THEN IsSubseq(Tail(a), Tail(b))
    ELSE IsSubseq(a, Tail(b))

\* C2: what find_iter(H) returns on a Standard automaton is the reference
\* sequence (earliest end first, the longest pattern ending there, restart at
\* that end), match for match and complete once None is returned, and it is a
\* subsequence of what find_overlapping_iter(H) returns.
C2_FindIterIsEarliestEndReference ==
    it_kind = "FindIterator" =>
        /\ IsPrefix(Emitted, RefFind(haystack, 0))
        /\ Drained => Emitted = RefFind(haystack, 0)
        /\ IsSubseq(Emitted, OverlappingAll(states, outputs, haystack))

\* A drained find_iter that skipped an occurrence the overlapping search
\* reports and returned two matches.
C2_Witness ==
    /\ it_kind = "FindIterator"
    /\ Drained
    /\ Len(Emitted) >= 2
    /\ Len(OverlappingAll(states, outputs, haystack)) > Len(Emitted)

\* lib.rs:53-64 and lib.rs:536-550: the find_iter doc tests.
DocFindExample ==
    /\ (/\ it_kind = "FindIterator"
        /\ ctor = "new"
        /\ patterns = << <<98, 99, 100>>, <<97, 98>>, <<97>> >>
        /\ haystack = <<97, 98, 99, 100>>
        /\ Drained) =>
           [k \in 1..Len(Emitted) |-> Triple(Emitted[k])] = << <<0, 1, 2>>, <<1, 4, 0>> >>
    /\ (/\ it_kind = "FindIterator"
        /\ ctor = "new"
        /\ patterns = << <<98, 99, 100>>, <<97, 98>>, <<97>>, <<101>> >>
        /\ haystack = <<97, 98, 99, 100, 101>>
        /\ Drained) =>
           [k \in 1..Len(Emitted) |-> Triple(Emitted[k])]
               = << <<0, 1, 2>>, <<1, 4, 0>>, <<4, 5, 3>> >>

----------------------------------------------------------------------------
(* C3 *)

NonOverlapping(ms) ==
    \A k \in 1..(Len(ms) - 1) : Match_start(ms[k + 1]) >= Match_end(ms[k])

\* C3: no two matches returned by find_iter (Standard automaton) or by
\* leftmost_find_iter (leftmost automaton) overlap: each match starts at or
\* after the end of the match returned before it.
C3_NoOverlap ==
    it_kind \in {"FindIterator", "LestmostFindIterator"} => NonOverlapping(Emitted)

\* Two states, one per iterator, cannot be one witness: the witness is a
\* leftmost search that returned two adjacent matches.
C3_Witness ==
    /\ it_kind = "LestmostFindIterator"
    /\ Len(Emitted) >= 2
    /\ Match_start(Emitted[2]) = Match_end(Emitted[1])

C3_WitnessFind ==
    /\ it_kind = "FindIterator"
    /\ Len(Emitted) >= 2
    /\ Match_start(Emitted[2]) >= Match_end(Emitted[1])

----------------------------------------------------------------------------
(* C4, C5 *)

StartingAt(h, i) == {k \in 1..Len(patterns) : OccursAt(h, k, i)}

\* The leftmost-longest reference: from e on, the smallest start of an
\* occurrence, the longest pattern occurring there, and again from its end.
RECURSIVE RefLeftmostLongest(_, _)
RefLeftmostLongest(h, e) ==
    LET starts == {i \in e..Len(h) : StartingAt(h, i) # {}} IN
    IF starts = {} THEN <<>>
    ELSE LET i == SetMin(starts)
             k == LongestOf(StartingAt(h, i))
         IN <<MatchOfPattern(k, i + Len(patterns[k]))>>
            \o RefLeftmostLongest(h, i + Len(patterns[k]))

\* C4: on a LeftmostLongest automaton leftmost_find_iter(H) returns the
\* reference sequence (smallest start at or after the previous end, the
\* longest pattern occurring there), and returns None only when no pattern
\* occurs at or after the previous end.
C4_LeftmostLongestIsReference ==
    (it_kind = "LestmostFindIterator" /\ match_kind = LeftmostLongest) =>
        /\ IsPrefix(Emitted, RefLeftmostLongest(haystack, 0))
        /\ Drained => Emitted = RefLeftmostLongest(haystack, 0)

\* A drained leftmost-longest search that returned a pattern although a
\* shorter pattern occurs at the same start, after skipping a byte.
C4_Witness ==
    /\ it_kind = "LestmostFindIterator"
    /\ match_kind = LeftmostLongest
    /\ Drained
    /\ \E n \in 1..Len(Emitted) :
          /\ Match_start(Emitted[n]) > 0
          /\ \E k \in StartingAt(haystack, Match_start(Emitted[n])) :
                 Len(patterns[k]) < Emitted[n].length

\* C5: on a LeftmostFirst automaton every match of leftmost_find_iter(H)
\* starts at the smallest position at or after the previous end at which
\* some pattern occurs, and is the pattern of smallest registration index
\* among those occurring at that start, whatever its length.
C5_LeftmostFirstPicksEarliestRegistered ==
    (it_kind = "LestmostFindIterator" /\ match_kind = LeftmostFirst) =>
        \A n \in 1..Len(Emitted) :
            LET e == IF n = 1 THEN 0 ELSE Match_end(Emitted[n - 1])
                m == Emitted[n]
                i == Match_start(m)
            IN /\ i >= e
               /\ StartingAt(haystack, i) # {}
               /\ \A i2 \in e..(i - 1) : StartingAt(haystack, i2) = {}
               /\ m = MatchOfPattern(SetMin(StartingAt(haystack, i)), Match_end(m))
               /\ Match_end(m) = i + Len(patterns[SetMin(StartingAt(haystack, i))])

\* A leftmost-first match of a pattern that is a proper prefix of an earlier
\* registered, longer pattern which does not occur in full at that start.
C5_Witness ==
    /\ it_kind = "LestmostFindIterator"
    /\ match_kind = LeftmostFirst
    /\ \E n \in 1..Len(Emitted) : \E k, k2 \in 1..Len(patterns) :
          /\ k2 < k
          /\ Len(patterns[k]) < Len(patterns[k2])
          /\ SubSeq(patterns[k2], 1, Len(patterns[k])) = patterns[k]
          /\ Emitted[n] = MatchOfPattern(k, Match_end(Emitted[n]))
          /\ OccursAt(haystack, k, Match_start(Emitted[n]))

\* lib.rs:737-748 and lib.rs:756-767: ab, abcd over abcd.
DocLeftmostExample ==
    (/\ it_kind = "LestmostFindIterator"
     /\ patterns = << <<97, 98>>, <<97, 98, 99, 100>> >>
     /\ haystack = <<97, 98, 99, 100>>
     /\ Drained) =>
        [k \in 1..Len(Emitted) |-> Triple(Emitted[k])]
            = IF match_kind = LeftmostLongest THEN << <<0, 4, 1>> >> ELSE << <<0, 2, 0>> >>

----------------------------------------------------------------------------
(* C6 *)

\* The first match of every distinct end position of a sequence of matches.
RECURSIVE FirstPerEnd(_, _)
FirstPerEnd(ms, seen) ==
    IF ms = <<>> THEN <<>>
    ELSE (IF Match_end(Head(ms)) \in seen THEN <<>> ELSE <<Head(ms)>>)
         \o FirstPerEnd(Tail(ms), seen \cup {Match_end(Head(ms))})

\* For every end position at which some pattern ends, in ascending order, the
\* longest pattern ending there.
RECURSIVE LongestPerEnd(_, _)
LongestPerEnd(h, j) ==
    IF j > Len(h) THEN <<>>
    ELSE (IF EndingAt(h, 0, j) = {} THEN <<>>
          ELSE <<MatchOfPattern(LongestOf(EndingAt(h, 0, j)), j)>>)
         \o LongestPerEnd(h, j + 1)

\* C6: what find_overlapping_no_suffix_iter(H) returns on a Standard
\* automaton is what find_overlapping_iter(H) returns, restricted to the first
\* match of each end position: one match per end position at which a pattern
\* ends, the longest pattern ending there.
C6_NoSuffixIsHeadOfEachRun ==
    it_kind = "FindOverlappingNoSuffixIterator" =>
        /\ IsPrefix(Emitted, FirstPerEnd(OverlappingAll(states, outputs, haystack), {}))
        /\ Drained =>
              /\ Emitted = FirstPerEnd(OverlappingAll(states, outputs, haystack), {})
              /\ Emitted = LongestPerEnd(haystack, 1)

\* A drained no-suffix search of a haystack in which two matches overlap and
\* an end position carries two patterns.
C6_Witness ==
    /\ it_kind = "FindOverlappingNoSuffixIterator"
    /\ Drained
    /\ Len(OverlappingAll(states, outputs, haystack)) > Len(Emitted)
    /\ \E n \in 1..(Len(Emitted) - 1) : Match_start(Emitted[n + 1]) < Match_end(Emitted[n])

\* lib.rs:675-686: bcd, cd, abc over abcd gives (0,3,2), (1,4,0).
DocNoSuffixExample ==
    (/\ it_kind = "FindOverlappingNoSuffixIterator"
     /\ ctor = "new"
     /\ patterns = << <<98, 99, 100>>, <<99, 100>>, <<97, 98, 99>> >>
     /\ haystack = <<97, 98, 99, 100>>
     /\ Drained) =>
        [k \in 1..Len(Emitted) |-> Triple(Emitted[k])] = << <<0, 3, 2>>, <<1, 4, 0>> >>

----------------------------------------------------------------------------
(* C7 *)

StandardIterators ==
    {"FindIterator", "FindOverlappingIterator", "FindOverlappingNoSuffixIterator"}

\* C7: find_iter, find_overlapping_iter and find_overlapping_no_suffix_iter
\* panic exactly on a LeftmostLongest or LeftmostFirst automaton,
\* leftmost_find_iter panics exactly on a Standard automaton: a failed factory
\* assertion is one of these cases, and an iterator that exists was made by a
\* factory of the group its automaton's match kind allows.
C7_FactoriesPanicExactlyOnWrongKind ==
    /\ (panicked # <<>> /\ panicked[1] = "assert") =>
          /\ it_kind = "None"
          /\ IF panicked[2] = "leftmost_find_iter"
             THEN match_kind = Standard
             ELSE match_kind \in {LeftmostLongest, LeftmostFirst}
    /\ it_kind \in StandardIterators => match_kind = Standard
    /\ it_kind = "LestmostFindIterator" => match_kind \in {LeftmostLongest, LeftmostFirst}

\* find_iter has panicked on a LeftmostFirst automaton.
C7_Witness ==
    /\ panicked = <<"assert", "find_iter">>
    /\ match_kind = LeftmostFirst
    /\ it_kind = "None"

\* leftmost_find_iter has succeeded on a LeftmostFirst automaton.
C7_WitnessLeftmostSucceeds ==
    /\ it_kind = "LestmostFindIterator"
    /\ match_kind = LeftmostFirst
    /\ panicked = <<>>

----------------------------------------------------------------------------
(* C8 *)

\* C8: every match returned by any of the four iterators has
\* 1 <= length <= end <= |H|, and H[start..end] is a registered pattern whose
\* registered value is the value of the match.
C8_MatchIsAnOccurrenceInRange ==
    \A n \in 1..Len(Emitted) :
        LET m == Emitted[n] IN
        /\ 1 <= m.length
        /\ m.length <= m.end
        /\ m.end <= Len(haystack)
        /\ \E k \in 1..Len(patterns) :
              /\ patterns[k] = SubSeq(haystack, Match_start(m) + 1, Match_end(m))
              /\ m.value = RegisteredValue(k)

\* A leftmost match that neither starts at byte 0 nor ends at the end of the
\* haystack.
C8_Witness ==
    /\ it_kind = "LestmostFindIterator"
    /\ \E n \in 1..Len(Emitted) :
          /\ Match_start(Emitted[n]) > 0
          /\ Match_end(Emitted[n]) < Len(haystack)

----------------------------------------------------------------------------
(* C9 *)

\* C9: a match of an automaton built with new(patterns) carries the
\* zero-based input position of the pattern that matched; a match of an
\* automaton built with with_values carries the value supplied with that
\* pattern, also when patterns share a value.
C9_ValueIsIndexOrSuppliedValue ==
    \A n \in 1..Len(Emitted) :
        LET m == Emitted[n] IN
        \E k \in 1..Len(patterns) :
            /\ patterns[k] = SubSeq(haystack, Match_start(m) + 1, Match_end(m))
            /\ ctor = "new" => m.value = k - 1
            /\ ctor = "with_values" => m.value = values[k]

\* Matches of two different patterns that were given the same value.
C9_Witness ==
    /\ ctor = "with_values"
    /\ \E n, n2 \in 1..Len(Emitted) :
          /\ Emitted[n].length # Emitted[n2].length
          /\ Emitted[n].value = Emitted[n2].value

\* A match of a pattern of an automaton built with new() that is not the
\* first of the input.
C9_WitnessNew ==
    /\ ctor = "new"
    /\ \E n \in 1..Len(Emitted) : Emitted[n].value >= 1

----------------------------------------------------------------------------
(* C10 *)

\* C10: heap_bytes() is exactly 12 times the length of the state array (free
\* slots included) plus 8 times the length of the output array (every stored
\* record included).
C10_HeapBytes ==
    (introspected # <<>> /\ introspected[1] = "heap_bytes") =>
        introspected[2] = (Len(states) * 12) + (Len(outputs) * 8)

\* lib.rs:791-794: heap_bytes() is 3104 for bcd, ab, a.
C10_Witness ==
    /\ introspected = <<"heap_bytes", 3104>>
    /\ ctor = "new"
    /\ patterns = << <<98, 99, 100>>, <<97, 98>>, <<97>> >>

----------------------------------------------------------------------------
(* The pattern trie, stated on the patterns alone *)

\* patterns[k] has nodes of its own: every pattern, except that a LeftmostFirst
\* automaton leaves out a pattern with an earlier registered proper prefix.
InTrie(k) ==
    ~(/\ match_kind = LeftmostFirst
      /\ \E k2 \in 1..(k - 1) :
            Len(patterns[k2]) < Len(patterns[k]) /\ IsPrefix(patterns[k2], patterns[k]))

\* The prefixes of the patterns, the empty prefix included.
Prefixes ==
    {<<>>} \cup UNION {{SubSeq(patterns[k], 1, n) : n \in 0..Len(patterns[k])} :
                          k \in {j \in 1..Len(patterns) : InTrie(j)}}

\* The cell reached from state_id along the bytes of str by child lookups.
RECURSIVE Walk(_, _, _)
Walk(sts, state_id, str) ==
    IF str = <<>> THEN Some(state_id)
    ELSE LET child == get_child_index_unchecked(sts, state_id, Head(str)) IN
         IF IsSome(child) THEN Walk(sts, Unwrap(child), Tail(str)) ELSE None

\* The state spelling prefix p.
StateOf(p) == Walk(states, ROOT_STATE_IDX, p)

\* The logical states: the cells that spell a prefix.
LogicalStates == {Unwrap(StateOf(p)) : p \in {q \in Prefixes : IsSome(StateOf(q))}}

----------------------------------------------------------------------------
(* C11 *)

\* C11: for a Standard automaton num_states() is the number of distinct
\* prefixes of the registered patterns, the empty prefix (ROOT) counted once:
\* every prefix is spelled by a cell of its own, and the free slots of the
\* state array are not counted.
C11_NumStatesCountsPrefixes ==
    (introspected # <<>> /\ introspected[1] = "num_states" /\ match_kind = Standard) =>
        /\ introspected[2] = Cardinality(Prefixes)
        /\ \A p \in Prefixes : IsSome(StateOf(p))
        /\ introspected[2] = Cardinality(LogicalStates)
        /\ introspected[2] < Len(states)

\* lib.rs:807-811: num_states() is 6 for bcd, ab, a, whose prefixes a and ab
\* share a state.
C11_Witness ==
    /\ introspected = <<"num_states", 6>>
    /\ ctor = "new"
    /\ patterns = << <<98, 99, 100>>, <<97, 98>>, <<97>> >>

----------------------------------------------------------------------------
(* C12 *)

\* The matches of ms come in non-decreasing order of end, those sharing an
\* end in strictly decreasing order of length.
EndThenLongerFirst(ms) ==
    \A k \in 1..(Len(ms) - 1) :
        \/ Match_end(ms[k]) < Match_end(ms[k + 1])
        \/ /\ Match_end(ms[k]) = Match_end(ms[k + 1])
           /\ ms[k].length > ms[k + 1].length

\* The records that follow a head in its run, from index i of the output
\* array on, up to the next record with is_begin set.
RECURSIVE RunTail(_, _)
RunTail(outs, i) ==
    IF i >= Len(outs) \/ Output_is_begin(OutputAt(outs, i)) THEN <<>>
    ELSE <<OutputAt(outs, i)>> \o RunTail(outs, i + 1)

RunAt(outs, i) == <<OutputAt(outs, i)>> \o RunTail(outs, i + 1)

\* The patterns that are a suffix of p.
SuffixPatterns(p) ==
    {k \in 1..Len(patterns) :
        /\ Len(patterns[k]) <= Len(p)
        /\ SubSeq(p, Len(p) - Len(patterns[k]) + 1, Len(p)) = patterns[k]}

RECURSIVE LongestFirst(_)
LongestFirst(ks) ==
    IF ks = {} THEN <<>> ELSE <<LongestOf(ks)>> \o LongestFirst(ks \ {LongestOf(ks)})

\* The run of the state spelling p is the patterns that are a suffix of p,
\* longest first, under a head with is_begin set; there is no run when no
\* pattern is a suffix of p.
RunIsSuffixPatterns(p) ==
    LET output_pos == State_output_pos(StateAt(states, Unwrap(StateOf(p))))
        want == LongestFirst(SuffixPatterns(p))
    IN IF want = <<>> THEN ~IsSome(output_pos)
       ELSE /\ IsSome(output_pos)
            /\ Output_is_begin(OutputAt(outputs, Unwrap(output_pos)))
            /\ LET run == RunAt(outputs, Unwrap(output_pos)) IN
               /\ Len(run) = Len(want)
               /\ \A n \in 1..Len(want) :
                     /\ Output_length(run[n]) = Len(patterns[want[n]])
                     /\ Output_value(run[n]) = RegisteredValue(want[n])

\* C12: find_overlapping_iter returns its matches in non-decreasing order of
\* end position and, among those sharing an end, in strictly decreasing order
\* of length; the run of every state of a Standard automaton has the longest
\* pattern that is a suffix of the state's prefix at its head and the strictly
\* shorter ones after it.
C12_OverlappingOrder ==
    /\ it_kind = "FindOverlappingIterator" => EndThenLongerFirst(Emitted)
    /\ (Idle /\ match_kind = Standard) => \A p \in Prefixes : RunIsSuffixPatterns(p)

\* A drained overlapping search that returned a longer and then a shorter
\* match at one end, and matches at two different ends.
C12_Witness ==
    /\ it_kind = "FindOverlappingIterator"
    /\ Drained
    /\ \E k \in 1..(Len(Emitted) - 1) :
          /\ Match_end(Emitted[k]) = Match_end(Emitted[k + 1])
          /\ Emitted[k].length > Emitted[k + 1].length
    /\ \E k \in 1..(Len(Emitted) - 1) : Match_end(Emitted[k]) < Match_end(Emitted[k + 1])

----------------------------------------------------------------------------
(* C13 *)

----------------------------------------------------------------------------
(* C14 *)

LastReturnedNone == returned # <<>> /\ ~IsSome(returned[Len(returned)])

\* C14: when a next() call of leftmost_find_iter has recorded no acceptance,
\* it has returned None and left the iterator with pos = haystack.len().
C14_LeftmostNoneSetsPosToEnd ==
    (it_kind = "LestmostFindIterator" /\ LastReturnedNone) => it_pos = Len(haystack)

\* The three Standard iterators, lib.rs:278, 335 and 381: pos is
\* haystack.len() when next() has returned None.
StandardNoneSetsPosToEnd ==
    (it_kind \in StandardIterators /\ LastReturnedNone) => it_pos = Len(haystack)

\* What LestmostFindIterator::next does instead: on None, pos is still the
\* end of the last match returned, 0 when there is none.
LeftmostNoneKeepsPos ==
    (it_kind = "LestmostFindIterator" /\ LastReturnedNone) =>
        it_pos = (IF Emitted = <<>> THEN 0 ELSE Match_end(Emitted[Len(Emitted)]))

----------------------------------------------------------------------------
(* C15 *)

Bytes == 0..255

----------------------------------------------------------------------------
(* C16 *)

----------------------------------------------------------------------------
(* C17 *)

\* C17: the cursor a find_overlapping_iter iterator reads at the start of a
\* next() call (0 at first, the head of a run + 1 after the head is returned,
\* + 1 after each drained record) is smaller than the length of the output
\* array: the array is not empty, its record 0 has is_begin set, and after the
\* last run it stores a record with is_begin set that is the head of no run.
C17_CursorInRange ==
    /\ it_kind = "FindOverlappingIterator" => it_output_pos < Len(outputs)
    /\ Idle =>
          /\ Len(outputs) > 0
          /\ Output_is_begin(OutputAt(outputs, 0))
          /\ Output_is_begin(OutputAt(outputs, Len(outputs) - 1))
          /\ \A i \in 0..(Len(states) - 1) :
                IsSome(State_output_pos(StateAt(states, i))) =>
                    Unwrap(State_output_pos(StateAt(states, i))) < Len(outputs) - 1

\* An overlapping search has drained the last run of the output array, so
\* that its cursor is on the last record, and has then returned None.
C17_Witness ==
    /\ it_kind = "FindOverlappingIterator"
    /\ it_output_pos = Len(outputs) - 1
    /\ Len(Emitted) >= 2
    /\ ~Output_is_begin(OutputAt(outputs, it_output_pos - 1))
    /\ LastReturnedNone

----------------------------------------------------------------------------
(* C18 *)

\* The proper suffixes of p, the empty one included.
ProperSuffixes(p) == {SubSeq(p, n + 1, Len(p)) : n \in 1..Len(p)}

\* The longest proper suffix of p that is a prefix of some pattern.
LongestProperSuffix(p) ==
    LET qs == ProperSuffixes(p) \cap Prefixes IN
    CHOOSE q \in qs : \A q2 \in qs : Len(q2) <= Len(q)

FailOf(p) == State_fail(StateAt(states, Unwrap(StateOf(p))))

\* C18: in every Standard automaton the fail of ROOT is ROOT and the fail of
\* the state spelling a non-empty prefix p is the state spelling the longest
\* proper suffix of p that is a prefix of some pattern, ROOT when only the
\* empty suffix is; so the prefix of fail(s) is strictly shorter than that
\* of s.
C18_FailIsLongestProperSuffix ==
    (Idle /\ match_kind = Standard) =>
        /\ State_fail(StateAt(states, ROOT_STATE_IDX)) = ROOT_STATE_IDX
        /\ \A p \in Prefixes \ {<<>>} :
              /\ IsSome(StateOf(p))
              /\ Some(FailOf(p)) = StateOf(LongestProperSuffix(p))

\* A Standard automaton with a state of depth 3 or more whose fail state is
\* neither ROOT nor the state of its suffix shorter by one byte.
C18_Witness ==
    /\ Idle
    /\ match_kind = Standard
    /\ \E p \in Prefixes :
          /\ Len(p) >= 3
          /\ Len(LongestProperSuffix(p)) >= 1
          /\ Len(LongestProperSuffix(p)) < Len(p) - 1
          /\ FailOf(p) # ROOT_STATE_IDX

----------------------------------------------------------------------------
(* C19 *)

\* Following the failure links from s for at most n steps reaches ROOT or,
\* in a leftmost automaton, a state whose fail is DEAD.
RECURSIVE FailChainEnds(_, _, _)
FailChainEnds(sts, s, n) ==
    IF s = ROOT_STATE_IDX THEN TRUE
    ELSE IF is_leftmost(match_kind) /\ State_fail(StateAt(sts, s)) = DEAD_STATE_IDX THEN TRUE
    ELSE IF n = 0 THEN FALSE
    ELSE FailChainEnds(sts, State_fail(StateAt(sts, s)), n - 1)

\* t is the child on c of some state of the set logical.
IsChildOn(logical, t, c) ==
    \E s \in logical : get_child_index_unchecked(states, s, c) = Some(t)

\* C19: for every logical state s and every byte c of a built automaton the
\* loop of next_state (Standard) returns, within as many iterations as there
\* are states, a child on c or ROOT, and the loop of next_state_leftmost
\* (leftmost kinds) a child on c, ROOT or DEAD: the failure links from s lead
\* to ROOT or to a state whose fail is DEAD without a cycle.
C19_TransitionLoopsTerminate ==
    Idle =>
        LET logical == LogicalStates IN
        \A s \in logical :
            /\ FailChainEnds(states, s, num_states)
            /\ \A c \in Bytes :
                  IF is_standard(match_kind)
                  THEN LET r == get_next_state_id_unchecked_within(states, s, c, num_states) IN
                       /\ IsSome(r)
                       /\ Unwrap(r) = get_next_state_id_unchecked(states, s, c)
                       /\ Unwrap(r) = ROOT_STATE_IDX \/ IsChildOn(logical, Unwrap(r), c)
                  ELSE LET r == get_next_state_id_leftmost_unchecked_within(
                                    states, s, c, num_states) IN
                       /\ IsSome(r)
                       /\ Unwrap(r) = get_next_state_id_leftmost_unchecked(states, s, c)
                       /\ \/ Unwrap(r) = ROOT_STATE_IDX
                          \/ Unwrap(r) = DEAD_STATE_IDX
                          \/ IsChildOn(logical, Unwrap(r), c)

\* A Standard automaton with a state and a byte for which the loop follows
\* three failure links before it returns.
C19_Witness ==
    /\ Idle
    /\ is_standard(match_kind)
    /\ \E s \in LogicalStates : \E c \in Bytes :
          /\ get_next_state_id_unchecked_within(states, s, c, 3) = None
          /\ get_next_state_id_unchecked_within(states, s, c, 4) = Some(ROOT_STATE_IDX)

\* A leftmost automaton in which the loop returns DEAD for one state and
\* byte, and follows a failure link before it returns for another.
C19_WitnessLeftmost ==
    /\ Idle
    /\ is_leftmost(match_kind)
    /\ \E s \in LogicalStates : \E c \in Bytes :
          get_next_state_id_leftmost_unchecked_within(states, s, c, 1) = Some(DEAD_STATE_IDX)
    /\ \E s \in LogicalStates : \E c \in Bytes :
          /\ get_next_state_id_leftmost_unchecked_within(states, s, c, 1) = None
          /\ IsSome(get_next_state_id_leftmost_unchecked_within(states, s, c, 2))

----------------------------------------------------------------------------
(* C20 *)

StrictlyIncreasingEnds(ms) ==
    \A k \in 1..(Len(ms) - 1) : Match_end(ms[k]) < Match_end(ms[k + 1])

MatchesAtEnd(ms, e) == Cardinality({k \in 1..Len(ms) : Match_end(ms[k]) = e})

\* C20: whatever number of next() calls has been made, the matches returned
\* by find_iter, find_overlapping_no_suffix_iter and leftmost_find_iter have
\* strictly increasing ends and are at most |H|, and find_overlapping_iter
\* has returned at most as many matches per end as there are patterns: after
\* at most that many calls next() returns None.
C20_IteratorsReturnNone ==
    /\ it_kind \in {"FindIterator", "FindOverlappingNoSuffixIterator", "LestmostFindIterator"}
          => /\ StrictlyIncreasingEnds(Emitted)
             /\ Len(Emitted) <= Len(haystack)
    /\ it_kind = "FindOverlappingIterator"
          => /\ \A e \in 0..Len(haystack) : MatchesAtEnd(Emitted, e) <= Len(patterns)
             /\ Len(Emitted) <= Len(haystack) * Len(patterns)
    /\ it_kind # "None"
          => \A k \in 1..Len(Emitted) : Match_end(Emitted[k]) \in 1..Len(haystack)

\* A leftmost search that returned a match at every byte of a haystack of at
\* least two bytes and then None.
C20_Witness ==
    /\ it_kind = "LestmostFindIterator"
    /\ Drained
    /\ Len(haystack) >= 2
    /\ Len(Emitted) = Len(haystack)

\* A drained overlapping search that returned as many matches at one end as
\* there are patterns, with two patterns at least.
C20_WitnessOverlapping ==
    /\ it_kind = "FindOverlappingIterator"
    /\ Drained
    /\ Len(patterns) >= 2
    /\ \E e \in 1..Len(haystack) : MatchesAtEnd(Emitted, e) = Len(patterns)

\* Drained find_iter and find_overlapping_no_suffix_iter searches with a match
\* at every byte.
C20_WitnessStandard ==
    /\ it_kind \in {"FindIterator", "FindOverlappingNoSuffixIterator"}
    /\ Drained
    /\ Len(haystack) >= 2
    /\ Len(Emitted) = Len(haystack)

----------------------------------------------------------------------------
(* C21 *)

\* No call returned a match after a call that returned None.
NoSomeAfterNone(rets) ==
    \A j \in 1..Len(rets) : \A k \in (j + 1)..Len(rets) :
        rets[j] = None => rets[k] = None

\* C21: on each of the four iterators every next() that follows a next()
\* that returned None returns None as well, and on an empty haystack every
\* call returns None.
C21_NoneIsFinal ==
    it_kind # "None" =>
        /\ NoSomeAfterNone(returned)
        /\ haystack = <<>> => Emitted = <<>>

\* An iterator that returned a match, then None, and None again on the call
\* after that.
C21_Witness ==
    /\ it_kind # "None"
    /\ Len(returned) >= 3
    /\ IsSome(returned[1])
    /\ returned[Len(returned) - 1] = None
    /\ returned[Len(returned)] = None

\* The same for the leftmost iterator, whose pos stays before the end of the
\* haystack when it returns None.
C21_WitnessLeftmost ==
    /\ it_kind = "LestmostFindIterator"
    /\ NoneCount(returned) >= 2
    /\ Emitted # <<>>
    /\ it_pos < Len(haystack)

\* Two calls on an empty haystack, both None.
C21_WitnessEmptyHaystack ==
    /\ it_kind # "None"
    /\ haystack = <<>>
    /\ Len(returned) >= 2

----------------------------------------------------------------------------
(* C22 *)

\* The iterator that n next() calls leave behind when it runs alone.
RECURSIVE RunAlone(_, _)
RunAlone(it, n) ==
    IF n = 0 THEN it ELSE Iterator_step(states, outputs, RunAlone(it, n - 1))

\* Every iterator created so far has the cursor and the returned values it
\* would have after as many calls on its own.
SharersRunAsAlone ==
    \A s \in Sharers :
        sharers[s].kind # "None" =>
            sharers[s] = RunAlone(NewIterator(sharers[s].kind, sharers[s].haystack),
                                  Len(sharers[s].returned))

\* A step leaves the automaton, every haystack and every iterator but one as
\* they are.
StepTouchesOneIterator ==
    /\ UNCHANGED <<states, outputs, match_kind, num_states>>
    /\ \A s \in Sharers :
          sharers[s].kind # "None" =>
              /\ sharers'[s].kind = sharers[s].kind
              /\ sharers'[s].haystack = sharers[s].haystack
    /\ \A s \in Sharers : \A t \in Sharers \ {s} :
          sharers'[s] # sharers[s] => sharers'[t] = sharers[t]

----------------------------------------------------------------------------
(* C23 *)

\* The State setter called last was method, with argument x on record old.
LastStateCall(method) == introspected # <<>> /\ introspected[1] = method

\* C23: set_check(x) makes check() = x and leaves fail() as it was;
\* set_fail(x), x <= 2^24 - 1, makes fail() = x and leaves check() as it was;
\* neither changes base() or output_pos(); and an Output built by
\* new(value, length, is_begin), length < 2^31, returns that value, length
\* and is_begin.
C23_PackedFieldsRoundTrip ==
    /\ LastStateCall("set_check") =>
          LET x == introspected[2]  old == introspected[3]  s == states[1] IN
          /\ State_check(s) = x
          /\ State_fail(s) = State_fail(old)
          /\ State_base(s) = State_base(old)
          /\ State_output_pos(s) = State_output_pos(old)
    /\ LastStateCall("set_fail") =>
          LET x == introspected[2]  old == introspected[3]  s == states[1] IN
          /\ State_fail(s) = x
          /\ State_check(s) = State_check(old)
          /\ State_base(s) = State_base(old)
          /\ State_output_pos(s) = State_output_pos(old)
    /\ LastStateCall("Output::new") =>
          /\ Output_value(outputs[1]) = introspected[2]
          /\ Output_length(outputs[1]) = introspected[3]
          /\ Output_is_begin(outputs[1]) = introspected[4]

\* set_check(1) called on a record whose check byte was 255 and whose fail
\* was FAIL_MAX, next to an Output of length 2^31 - 1 that begins a run.
C23_Witness ==
    /\ LastStateCall("set_check")
    /\ introspected[2] = 1
    /\ State_check(introspected[3]) = 255
    /\ State_fail(introspected[3]) = FAIL_MAX
    /\ IsSome(State_base(states[1]))
    /\ Output_length(outputs[1]) = 2147483647
    /\ Output_is_begin(outputs[1])

\* set_fail(FAIL_MAX) called on a record whose check byte was 255 and whose
\* fail was 0.
C23_WitnessSetFail ==
    /\ LastStateCall("set_fail")
    /\ introspected[2] = FAIL_MAX
    /\ State_check(introspected[3]) = 255
    /\ State_fail(introspected[3]) = 0

====
